---- MODULE Spec2Model ----
(***************************************************************************)
(* Model of the run loop of src/src/md.c (main): allocation of the working *)
(* buffers, construction of the lookup tables, initialisation of the box,  *)
(* the integration loop with its output, and the release of the buffers.   *)
(*                                                                         *)
(* Lengths are counted in grid units: a position component is an integer   *)
(* of 0..L-1, a velocity is grid units per step (the time step h is        *)
(* absorbed in the unit), a force is an integer.  The heap is a set of     *)
(* blocks 1..7, one per malloc of main in program order; a pointer is a    *)
(* block number or NULL.                                                   *)
(***************************************************************************)
EXTENDS Integers, Sequences, FiniteSets

\* ---------------------------------------------------------------- sizes
\* Number of particles of the model (md.c runs 512).
N == 2
\* Box edge in grid units; the cutoff rc is L/2.
L == 4
\* Table size handed to the table builders (md.c runs 2000).
g == 2
\* Initial velocity components are drawn from {-MaxV, 0, MaxV}.
MaxV == 5
\* A buffer nobody wrote reads as one value of -MaxG..MaxG in every cell.
MaxG == 1
\* Number of iterations of the run loop.
niter == 10
\* Period of the configuration snapshots.
SnapEvery_mut == niter \div 2
SnapEvery == 10

NULL == 0

\* The pointer variables of main, in the order of their malloc calls.
Names == <<"LJ_LUT", "FZA_LUT", "pos", "vel", "fza", "fza_aux", "lambda">>
NameSet == {Names[k] : k \in 1..Len(Names)}
Blocks == 1..Len(Names)
BlockOf(n) == CHOOSE k \in Blocks : Names[k] = n

\* Number of table entries requested for each lookup table.
LutAlloc_mut == g - 1
LutAlloc == g

\* Number of elements requested by the malloc of each pointer.
AllocCount(n) ==
    CASE n = "LJ_LUT" -> LutAlloc
      [] n = "FZA_LUT" -> LutAlloc
      [] n = "lambda" -> niter
      [] OTHER -> 3 * N

\* The box edge handed to verlet().
VerletBox_mut == L + 1
VerletBox == L

\* The pointers handed to verlet(): the only buffers a step can reach.
VerletArgs == {"pos", "vel", "fza", "fza_aux"}

\* The order of the free() calls at the end of main.
FreeOrder_mut == <<"LJ_LUT", "FZA_LUT", "pos", "vel", "fza", "fza", "lambda">>
FreeOrder == <<"LJ_LUT", "FZA_LUT", "pos", "vel", "fza", "fza_aux", "lambda">>

\* ------------------------------------------------------------- helpers
Idx == 0..(3 * N - 1)

RECURSIVE SumF(_, _)
SumF(f, n) == IF n < 0 THEN 0 ELSE f[n] + SumF(f, n - 1)

Abs(x) == IF x < 0 THEN -x ELSE x

\* ------------------------------------------------- lennardjones module
\* Potential entry i of a table of len entries that spans the cutoff.
LJpot(k, len) == IF k = 0 THEN 4 * len * len ELSE (4 * len * len) \div (k * k) - 4

\* lennardjones_lut(LJ_LUT, g, rc): fills entries 0..len-1.
lennardjones_lut(len) == [k \in 0..(len - 1) |-> LJpot(k, len)]

\* fuerza_lut(FZA_LUT, LJ_LUT, g, rc): force entry k from the potential table.
fuerza_lut(V, len) ==
    [k \in 0..(len - 1) |-> IF k + 1 < len THEN V[k] - V[k + 1] ELSE 0]

\* --------------------------------------------------------- setup module
CeilCbrt(n) == CHOOSE c \in 1..n : c * c * c >= n /\ (c - 1) * (c - 1) * (c - 1) < n

\* llenar(pos, N, L): particles on a simple cubic lattice spanning the box.
llenar(n, box) ==
    LET side == CeilCbrt(n)
        a == box \div side
        site(p, c) == CASE c = 0 -> p % side
                        [] c = 1 -> (p \div side) % side
                        [] OTHER -> p \div (side * side)
    IN  [k \in 0..(3 * n - 1) |-> a * site(k \div 3, k % 3)]

\* velocidades(vel, N, T): the velocity sets of zero net momentum.
VelVals == {-MaxV, 0, MaxV}
velocidades ==
    {v \in [Idx -> VelVals] :
        \A c \in 0..2 : SumF([p \in 0..(N - 1) |-> v[3 * p + c]], N - 1) = 0}

\* -------------------------------------------------------- verlet module
\* Minimum-image displacement of one component.
MinImage(d, box) ==
    IF 2 * d > box THEN d - box ELSE IF 2 * d < -box THEN d + box ELSE d

\* Force magnitude over distance at squared distance r2.
ForceMag(r2) == IF r2 = 0 THEN 0 ELSE (6 \div r2) - 1

\* Pairwise forces of configuration x in a box of edge box, cutoff box/2.
fuerzas(x, box) ==
    LET d(a, b, c) == MinImage(x[3 * a + c] - x[3 * b + c], box)
        r2(a, b) == d(a, b, 0) * d(a, b, 0) + d(a, b, 1) * d(a, b, 1)
                    + d(a, b, 2) * d(a, b, 2)
        pair(a, b, c) == IF a = b \/ 4 * r2(a, b) >= box * box THEN 0
                         ELSE ForceMag(r2(a, b)) * d(a, b, c)
    IN  [k \in Idx |->
            SumF([b \in 0..(N - 1) |-> pair(k \div 3, b, k % 3)], N - 1)]

\* A local array of the step: the function f, computed once when it is
\* filled and not again at each later read of an element.
Array(f) == CHOOSE h \in {f} : h = f

\* Periodic re-entry of one component.
wrap(x, box) == x % box

\* One velocity-Verlet step from positions p, velocities v and forces F.
verlet(p, v, F, box) ==
    LET raw == Array([k \in Idx |-> p[k] + v[k] + (F[k] \div 2)])
        Fn == Array(fuerzas(raw, box))
    IN  [pos |-> [k \in Idx |-> wrap(raw[k], box)],
         vel |-> [k \in Idx |-> v[k] + ((F[k] + Fn[k]) \div 2)],
         fnew |-> Fn,
         disp |-> [k \in Idx |-> raw[k] - p[k]]]

\* ------------------------------------------------------- energia module
\* lambda_verlet(pos, N, L): an aggregate of the position components.
lambda_verlet(p) == SumF(p, 3 * N - 1)

\* Hboltzmann(vel, N, T): an aggregate of the velocity components.
Hboltzmann(v) == SumF([k \in Idx |-> v[k] * v[k]], 3 * N - 1)

\* ---------------------------------------------------------------- state
VARIABLES
    pc,        \* the statement main executes next
    i,         \* the loop index
    fi,        \* the next free() call, an index of FreeOrder
    ptr,       \* value of each pointer variable of main
    size,      \* elements of storage of each block (0: not allocated)
    cells,     \* contents of each block, cell indices from 0
    written,   \* cell indices of each block some operation has stored to
    frees,     \* number of free() calls that named each block
    out,       \* the standard output, one record per line
    posVer,    \* number of position updates so far
    fver,      \* position version the forces held by each block belong to
    nverlet,   \* number of verlet() calls that returned
    nbuilds,   \* number of table constructions performed
    reach,     \* pointer variables the last verlet() call was handed
    disp,      \* raw displacement of each component in the last step
    posHist    \* configurations: the initial one, then one per step

vars == <<pc, i, fi, ptr, size, cells, written, frees, out, posVer, fver,
          nverlet, nbuilds, reach, disp, posHist>>

Init ==
    /\ pc = "malloc"
    /\ i = 0
    /\ fi = 1
    /\ ptr = [n \in NameSet |-> NULL]
    /\ size = [b \in Blocks |-> 0]
    /\ cells = [b \in Blocks |-> <<>>]
    /\ written = [b \in Blocks |-> {}]
    /\ frees = [b \in Blocks |-> 0]
    /\ out = <<>>
    /\ posVer = 0
    /\ fver = [b \in Blocks |-> -1]
    /\ nverlet = 0
    /\ nbuilds = 0
    /\ reach = {}
    /\ disp = [k \in Idx |-> 0]
    /\ posHist = <<>>

\* A store of the first len values of f to block b.  Indices beyond the
\* storage of the block are recorded in written but change no cell.
Store(b, f, len) ==
    /\ cells' = [cells EXCEPT ![b] =
                    [k \in 0..(size[b] - 1) |-> IF k < len THEN f[k] ELSE @[k]]]
    /\ written' = [written EXCEPT ![b] = @ \cup 0..(len - 1)]

\* What a read of block b returns when fill is the value of unwritten cells.
Load(b, fill) ==
    [k \in 0..(size[b] - 1) |-> IF k \in written[b] THEN cells[b][k] ELSE fill]

\* A load or store through a null pointer in a callee faults: the process ends.
Fault ==
    /\ pc' = "crashed"
    /\ UNCHANGED <<i, fi, ptr, size, cells, written, frees, out, posVer, fver,
                   nverlet, nbuilds, reach, disp, posHist>>

\* float *X = (float *)malloc(...), seven times; each may return NULL.
Malloc ==
    /\ pc = "malloc"
    /\ \E ok \in [Blocks -> BOOLEAN] :
          /\ ptr' = [n \in NameSet |-> IF ok[BlockOf(n)] THEN BlockOf(n) ELSE NULL]
          /\ size' = [b \in Blocks |-> IF ok[b] THEN AllocCount(Names[b]) ELSE 0]
          /\ cells' = [b \in Blocks |->
                          [k \in 0..((IF ok[b] THEN AllocCount(Names[b]) ELSE 0) - 1) |-> 0]]
    /\ pc' = "lj_lut"
    /\ UNCHANGED <<i, fi, written, frees, out, posVer, fver, nverlet, nbuilds,
                   reach, disp, posHist>>

\* lennardjones_lut(LJ_LUT, g, rc);
BuildLJ ==
    /\ pc = "lj_lut"
    /\ IF ptr["LJ_LUT"] = NULL THEN Fault
       ELSE /\ Store(ptr["LJ_LUT"], lennardjones_lut(g), g)
            /\ pc' = "fza_lut"
            /\ UNCHANGED <<i, fi, ptr, size, frees, out, posVer, fver, nverlet,
                           nbuilds, reach, disp, posHist>>

\* fuerza_lut(FZA_LUT, LJ_LUT, g, rc);
BuildFZA ==
    /\ pc = "fza_lut"
    /\ IF ptr["FZA_LUT"] = NULL THEN Fault
       ELSE /\ Store(ptr["FZA_LUT"], fuerza_lut(Load(ptr["LJ_LUT"], 0), g), g)
            /\ nbuilds' = nbuilds + 1
            /\ pc' = "llenar"
            /\ UNCHANGED <<i, fi, ptr, size, frees, out, posVer, fver, nverlet,
                           reach, disp, posHist>>

\* llenar(pos, N, L);
Llenar ==
    /\ pc = "llenar"
    /\ IF ptr["pos"] = NULL THEN Fault
       ELSE /\ Store(ptr["pos"], llenar(N, L), 3 * N)
            /\ posHist' = <<llenar(N, L)>>
            /\ pc' = "velocidades"
            /\ UNCHANGED <<i, fi, ptr, size, frees, out, posVer, fver, nverlet,
                           nbuilds, reach, disp>>

\* velocidades(vel, N, T); the generator was seeded from the clock.
Velocidades ==
    /\ pc = "velocidades"
    /\ IF ptr["vel"] = NULL THEN Fault
       ELSE /\ \E v \in velocidades : Store(ptr["vel"], v, 3 * N)
            /\ pc' = "loop"
            /\ UNCHANGED <<i, fi, ptr, size, frees, out, posVer, fver, nverlet,
                           nbuilds, reach, disp, posHist>>

\* for(i=0;i<niter;i++): the test.
LoopTest ==
    /\ pc = "loop"
    /\ pc' = IF i < niter THEN "snap" ELSE "free"
    /\ UNCHANGED <<i, fi, ptr, size, cells, written, frees, out, posVer, fver,
                   nverlet, nbuilds, reach, disp, posHist>>

\* The lines of one configuration snapshot.
SnapLines(p) ==
    [k \in 1..N |-> [kind |-> "pos",
                     v |-> <<p[3 * (k - 1)], p[3 * (k - 1) + 1], p[3 * (k - 1) + 2]>>]]
    \o <<[kind |-> "blank", v |-> <<>>]>>

\* if(i % 10 == 0) { N position lines; a blank line }
Snapshot ==
    /\ pc = "snap"
    /\ out' = IF i % SnapEvery = 0 THEN out \o SnapLines(Load(ptr["pos"], 0)) ELSE out
    /\ pc' = "verlet"
    /\ UNCHANGED <<i, fi, ptr, size, cells, written, frees, posVer, fver,
                   nverlet, nbuilds, reach, disp, posHist>>

\* verlet(pos, vel, &fza, &fza_aux, N, L, h, rc);
StepVerlet ==
    /\ pc = "verlet"
    /\ IF \E n \in VerletArgs : ptr[n] = NULL THEN Fault
       ELSE \E fill \in -MaxG..MaxG :
            \E r \in {verlet(Load(ptr["pos"], 0), Load(ptr["vel"], 0),
                            Load(ptr["fza"], fill), VerletBox)} :
                /\ cells' = [cells EXCEPT ![ptr["pos"]] = r.pos,
                                          ![ptr["vel"]] = r.vel,
                                          ![ptr["fza_aux"]] = r.fnew]
                /\ written' = [written EXCEPT ![ptr["fza_aux"]] = Idx]
                /\ fver' = [fver EXCEPT ![ptr["fza_aux"]] = posVer + 1]
                /\ ptr' = [ptr EXCEPT !["fza"] = ptr["fza_aux"],
                                      !["fza_aux"] = ptr["fza"]]
                /\ posVer' = posVer + 1
                /\ nverlet' = nverlet + 1
                /\ reach' = VerletArgs
                /\ disp' = r.disp
                /\ posHist' = Append(posHist, r.pos)
                /\ pc' = "hprint"
                /\ UNCHANGED <<i, fi, size, frees, out, nbuilds>>

\* printf("%f\n", Hboltzmann(vel, N, T));
PrintH ==
    /\ pc = "hprint"
    /\ out' = Append(out, [kind |-> "H", v |-> <<Hboltzmann(Load(ptr["vel"], 0))>>])
    /\ pc' = "lambda"
    /\ UNCHANGED <<i, fi, ptr, size, cells, written, frees, posVer, fver,
                   nverlet, nbuilds, reach, disp, posHist>>

\* The element of lambda the loop body stores to.
LambdaIndex_mut == IF i > 0 THEN i - 1 ELSE 0
LambdaIndex == i

\* lambda[i] = lambda_verlet(pos, N, L); then i++.
StoreLambda ==
    /\ pc = "lambda"
    /\ IF ptr["lambda"] = NULL THEN Fault
       ELSE /\ cells' = [cells EXCEPT ![ptr["lambda"]] =
                            [k \in 0..(size[ptr["lambda"]] - 1) |->
                                IF k = LambdaIndex THEN lambda_verlet(Load(ptr["pos"], 0))
                                ELSE @[k]]]
            /\ written' = [written EXCEPT ![ptr["lambda"]] = @ \cup {LambdaIndex}]
            /\ i' = i + 1
            /\ pc' = "loop"
            /\ UNCHANGED <<fi, ptr, size, frees, out, posVer, fver, nverlet,
                           nbuilds, reach, disp, posHist>>

\* free(LJ_LUT); ... free(lambda); one call per step, then the end of main.
Free ==
    /\ pc = "free"
    /\ LET p == ptr[FreeOrder[fi]]
       IN  frees' = IF p = NULL THEN frees ELSE [frees EXCEPT ![p] = @ + 1]
    /\ fi' = fi + 1
    /\ pc' = IF fi = Len(FreeOrder) THEN "done" ELSE "free"
    /\ UNCHANGED <<i, ptr, size, cells, written, out, posVer, fver, nverlet,
                   nbuilds, reach, disp, posHist>>

Next ==
    \/ Malloc
    \/ BuildLJ
    \/ BuildFZA
    \/ Llenar
    \/ Velocidades
    \/ LoopTest
    \/ Snapshot
    \/ StepVerlet
    \/ PrintH
    \/ StoreLambda
    \/ Free

Spec == Init /\ [][Next]_vars

\* =============================================================== claims
\* Number of records of kind kd among the first n lines of s.
RECURSIVE CountKind(_, _, _)
CountKind(s, kd, n) ==
    IF n = 0 THEN 0
    ELSE (IF s[n].kind = kd THEN 1 ELSE 0) + CountKind(s, kd, n - 1)

Allocated == {b \in Blocks : size[b] > 0}

C2_ExactlyNiterSteps ==
    pc \in {"done", "crashed"} => nverlet \in {0, niter}

\* C3: no block is released twice, no block is used once a block has been
\* released, fza and fza_aux always hold between them the two blocks their
\* own malloc calls returned (distinct when both exist), every other pointer
\* keeps its block, and at the end of main every allocated block has been
\* released exactly once.
C3_ReleasedOnce ==
    /\ \A b \in Blocks : frees[b] <= 1
    /\ (\E b \in Blocks : frees[b] > 0) => pc \in {"free", "done"}
    /\ pc # "malloc" =>
          /\ {ptr["fza"], ptr["fza_aux"]} \ {NULL}
                = {BlockOf("fza"), BlockOf("fza_aux")} \cap Allocated
          /\ {BlockOf("fza"), BlockOf("fza_aux")} \subseteq Allocated
                => ptr["fza"] # ptr["fza_aux"]
          /\ \A n \in NameSet \ {"fza", "fza_aux"} :
                ptr[n] \in ({BlockOf(n)} \cap Allocated) \cup {NULL}
    /\ pc = "done" => \A b \in Allocated : frees[b] = 1

\* C3 witness: the end of main after niter steps and as many exchanges of
\* fza and fza_aux, all seven blocks released.
C3_Witness ==
    /\ pc = "done"
    /\ nverlet = niter
    /\ Allocated = Blocks
    /\ \A b \in Blocks : frees[b] = 1

\* C4 as stated: the tables are built once before the first step, and the
\* force evaluation of every step has the force table within its reach.
C4_StepsReadTheTable ==
    /\ nverlet > 0 => nbuilds = 1
    /\ nverlet > 0 => "FZA_LUT" \in reach

\* Table length of the specification: floor(g * rc) with rc = L/2.
M == (g * L) \div 2

C6_NoUseOfFailedBuffer ==
    pc # "crashed"

\* C7 as stated: when k iterations have completed, the output carries k
\* lines holding an order-parameter value.
C7_LambdaPrinted ==
    pc = "loop" => CountKind(out, "lambda", Len(out)) = i

\* C8: when k iterations have completed exactly lambda[0..k-1] have been
\* written, entry j holds the order parameter of the configuration the
\* (j+1)-th step produced, all indices are within the niter elements of the
\* buffer, and no step changes an entry that was written.
C8_LambdaAppendOnly ==
    /\ [](ptr["lambda"] # NULL =>
            LET b == ptr["lambda"]
            IN  /\ size[b] = niter
                /\ written[b] = 0..(i - 1)
                /\ written[b] \subseteq 0..(size[b] - 1)
                /\ \A j \in written[b] : cells[b][j] = lambda_verlet(posHist[j + 2]))
    /\ [][ptr["lambda"] # NULL =>
            \A j \in written[ptr["lambda"]] :
                cells'[ptr["lambda"]][j] = cells[ptr["lambda"]][j]]_vars

\* C8 witness: all niter entries are written, and not all alike.
C8_Witness ==
    /\ pc = "free"
    /\ written[ptr["lambda"]] = 0..(niter - 1)
    /\ \E j \in 1..(niter - 1) : cells[ptr["lambda"]][j] # cells[ptr["lambda"]][0]

\* C9 as stated: when verlet() is called, the block fza points to holds
\* forces evaluated at the current positions, at the first step too.
C9_ForcesAreCurrent ==
    (pc = "verlet" /\ \A n \in VerletArgs : ptr[n] # NULL) =>
        /\ written[ptr["fza"]] = Idx
        /\ fver[ptr["fza"]] = posVer

\* C10: a snapshot is N position lines in particle order followed by a
\* blank line; the j-th snapshot (from 0) comes after exactly 10*j per-step
\* lines, so before the step of iteration 10*j, and shows the configuration
\* after 10*j steps; every iteration 10*j that has begun has its snapshot;
\* a completed run holds ceil(niter/10) snapshots.
C10_SnapshotCadence ==
    LET nb == CountKind(out, "blank", Len(out))
    IN  /\ CountKind(out, "pos", Len(out)) = N * nb
        /\ nb >= (CountKind(out, "H", Len(out)) + 9) \div 10
        /\ pc \in {"verlet", "hprint", "lambda"} => nb >= 1
        /\ \A q \in 1..Len(out) :
              out[q].kind = "blank" =>
                  LET h == CountKind(out, "H", q)
                  IN  /\ h = 10 * CountKind(out, "blank", q - 1)
                      /\ q > N
                      /\ \A k \in 1..N :
                            out[q - N + k - 1] =
                                [kind |-> "pos",
                                 v |-> <<posHist[h + 1][3 * (k - 1)],
                                         posHist[h + 1][3 * (k - 1) + 1],
                                         posHist[h + 1][3 * (k - 1) + 2]>>]
        /\ pc = "done" => nb = (niter + 9) \div 10

\* C10 witness: a completed run with its snapshot and niter per-step lines.
C10_Witness ==
    /\ pc = "done"
    /\ CountKind(out, "blank", Len(out)) = 1
    /\ CountKind(out, "H", Len(out)) = niter

====
